---- MODULE Spec2Model ----
(***************************************************************************)
(* Model of the .gg parser (src/parser/parse.py), its converter            *)
(* (src/parser/convert.py) and the rule table (language_rules.py).         *)
(*                                                                         *)
(* Texts are sequences of one-character strings.  Two state machines are   *)
(* described over one set of variables:                                    *)
(*   SpecStrip - the comment-stripping substitution of parse.py:64-65,     *)
(*               run as the regex scanner runs it, twice in a row;         *)
(*   Spec      - one run of parse(), including the call to convert().      *)
(***************************************************************************)
EXTENDS Integers, Sequences, FiniteSets, TLC

VARIABLES
    full_text,      \* parse.py:63   the text of the input file
    pc,             \* where the run is
    subject,        \* the string the substitution is scanning
    pos,            \* scanner position in subject (1-based)
    kept,           \* text the substitution has produced so far
    pass,           \* which application of the substitution is running
    first_result,   \* result of the first application
    entry,          \* the script that was started: "parse.py" or "convert.py"
    lang_arg,       \* the language argument of the command line ("" if none)
    convert_to,     \* parse.py:41,52
    code_lines,     \* parse.py:66
    line_no,        \* index in code_lines of the line the loop is at
    output,         \* parse.py:61   list of intermediate lines
    statements,     \* the fields formatted into each element of output
    out_file,       \* text of the output file
    out_written,    \* TRUE once the run has written to the output file
    line_index,     \* parse.py:83   line number printed with SyntaxError
    read_lines,     \* convert.py:44 lines the converter iterates over
    conv_no,        \* index in read_lines of the line the converter is at
    read_back,      \* the fields the converter read from each line
    output_text     \* convert.py:41 text built by the converter

vars == <<full_text, pc, subject, pos, kept, pass, first_result, entry,
          lang_arg, convert_to, code_lines, line_no, output, statements,
          out_file, out_written, line_index, read_lines, conv_no, read_back,
          output_text>>

stripVars == <<subject, pos, kept, pass, first_result>>
runVars == <<entry, lang_arg, convert_to, code_lines, line_no, output,
             statements, out_file, out_written, line_index, read_lines,
             conv_no, read_back, output_text>>

(***************************************************************************)
(* Bounds                                                                  *)
(***************************************************************************)
MaxLen == 5
MaxChunks == 2

(***************************************************************************)
(* Characters                                                              *)
(***************************************************************************)
DQ == "\""
SQ == "'"
BS == "\\"
NL == "\n"
CR == "\r"
TAB == "\t"
SP == " "

\* Characters of the texts the stripping machine is run on.  The file is
\* opened in text mode (parse.py:58), so a carriage return never reaches
\* full_text: universal newlines turn it into "\n".
Alphabet == {DQ, SQ, "/", "*", BS, NL, "a"}

Min(S) == CHOOSE x \in S : \A y \in S : x <= y

Slice(s, a, b) == [k \in 1..(IF b >= a THEN b - a + 1 ELSE 0) |-> s[a + k - 1]]

RECURSIVE Concat(_)
Concat(ss) == IF ss = <<>> THEN <<>> ELSE Head(ss) \o Concat(Tail(ss))

RECURSIVE JoinWith(_, _)
JoinWith(sep, ss) ==
    IF ss = <<>> THEN <<>>
    ELSE IF Len(ss) = 1 THEN ss[1]
    ELSE ss[1] \o sep \o JoinWith(sep, Tail(ss))

(***************************************************************************)
(* __comments_pattern, parse.py:36                                         *)
(*   (".*?(?<!\\)"|'.*?(?<!\\)')|(/\*.*?\*/|//[^\r\n]*$)   MULTILINE|DOTALL *)
(* Each operator gives the index of the last character of the match that   *)
(* starts at i, or 0 when that alternative does not match at i.            *)
(***************************************************************************)

\* q.*?(?<!\\)q : lazy, so the match ends at the first q after i that is not
\* directly preceded by a backslash.
QuoteEndNoLookbehind(t, i, q) ==
    IF i <= Len(t) /\ t[i] = q
    THEN LET C == {j \in (i+1)..Len(t) : t[j] = q}
         IN IF C = {} THEN 0 ELSE Min(C)
    ELSE 0

QuoteEnd(t, i, q) ==
    IF i <= Len(t) /\ t[i] = q
    THEN LET C == {j \in (i+1)..Len(t) : t[j] = q /\ t[j-1] # BS}
         IN IF C = {} THEN 0 ELSE Min(C)
    ELSE 0

\* /\*.*?\*/ : lazy, DOTALL, so it ends at the first "*/" at or after i+2.
BlockEnd(t, i) ==
    IF i + 1 <= Len(t) /\ t[i] = "/" /\ t[i+1] = "*"
    THEN LET C == {j \in (i+2)..(Len(t)-1) : t[j] = "*" /\ t[j+1] = "/"}
         IN IF C = {} THEN 0 ELSE Min(C) + 1
    ELSE 0

\* //[^\r\n]*$ : greedy up to the first CR or LF; with MULTILINE "$" holds
\* only at the end of the text or right before a "\n".
LineEnd(t, i) ==
    IF i + 1 <= Len(t) /\ t[i] = "/" /\ t[i+1] = "/"
    THEN LET S == {k \in (i+2)..Len(t) : t[k] \in {CR, NL}}
             stop == IF S = {} THEN Len(t) + 1 ELSE Min(S)
         IN IF stop > Len(t) \/ t[stop] = NL THEN stop - 1 ELSE 0
    ELSE 0

\* The match of the whole pattern at i: alternatives are tried in the order
\* they are written.  group = 1 for a quoted run, 2 for a comment.
MatchAt(t, i) ==
    IF QuoteEnd(t, i, DQ) # 0 THEN [group |-> 1, end |-> QuoteEnd(t, i, DQ)]
    ELSE IF QuoteEnd(t, i, SQ) # 0 THEN [group |-> 1, end |-> QuoteEnd(t, i, SQ)]
    ELSE IF BlockEnd(t, i) # 0 THEN [group |-> 2, end |-> BlockEnd(t, i)]
    ELSE IF LineEnd(t, i) # 0 THEN [group |-> 2, end |-> LineEnd(t, i)]
    ELSE [group |-> 0, end |-> 0]

\* The replacement function of parse.py:65.
ReplacementAlwaysEmpty(t, i, m) == <<>>

Replacement(t, i, m) == IF m.group = 2 THEN <<>> ELSE Slice(t, i, m.end)

\* __comments_pattern.sub(lambda ..., full_text), parse.py:64-65, from i on.
RECURSIVE SubFrom(_, _)
SubFrom(t, i) ==
    IF i > Len(t) THEN <<>>
    ELSE LET m == MatchAt(t, i)
         IN IF m.group = 0 THEN <<t[i]>> \o SubFrom(t, i + 1)
            ELSE Replacement(t, i, m) \o SubFrom(t, m.end + 1)

StripComments(t) == SubFrom(t, 1)

(***************************************************************************)
(* The substitution as a machine: one step per scanner move.               *)
(***************************************************************************)
Texts(n) == UNION {[1..k -> Alphabet] : k \in 0..n}

InitStrip ==
    /\ full_text \in Texts(MaxLen)
    /\ pc = "scan"
    /\ subject = full_text
    /\ pos = 1
    /\ kept = <<>>
    /\ pass = 1
    /\ first_result = <<>>
    /\ entry = "parse.py"
    /\ lang_arg = ""
    /\ convert_to = "txt"
    /\ code_lines = <<>>
    /\ line_no = 0
    /\ output = <<>>
    /\ statements = <<>>
    /\ out_file = <<>>
    /\ out_written = FALSE
    /\ line_index = 0
    /\ read_lines = <<>>
    /\ conv_no = 0
    /\ read_back = <<>>
    /\ output_text = <<>>

\* No alternative matches at pos: the character is copied.
CopyChar ==
    /\ pc = "scan"
    /\ pos <= Len(subject)
    /\ MatchAt(subject, pos).group = 0
    /\ kept' = Append(kept, subject[pos])
    /\ pos' = pos + 1
    /\ UNCHANGED <<full_text, pc, subject, pass, first_result>>
    /\ UNCHANGED runVars

\* Group 1 matches at pos: replaced by itself.
KeepQuoted ==
    /\ pc = "scan"
    /\ pos <= Len(subject)
    /\ MatchAt(subject, pos).group = 1
    /\ kept' = kept \o Replacement(subject, pos, MatchAt(subject, pos))
    /\ pos' = MatchAt(subject, pos).end + 1
    /\ UNCHANGED <<full_text, pc, subject, pass, first_result>>
    /\ UNCHANGED runVars

\* Group 2 matches at pos: replaced by the empty string.
RemoveComment ==
    /\ pc = "scan"
    /\ pos <= Len(subject)
    /\ MatchAt(subject, pos).group = 2
    /\ kept' = kept \o Replacement(subject, pos, MatchAt(subject, pos))
    /\ pos' = MatchAt(subject, pos).end + 1
    /\ UNCHANGED <<full_text, pc, subject, pass, first_result>>
    /\ UNCHANGED runVars

\* End of the first application; the result is stripped once more.
StripAgain ==
    /\ pc = "scan"
    /\ pos > Len(subject)
    /\ pass = 1
    /\ first_result' = kept
    /\ subject' = kept
    /\ kept' = <<>>
    /\ pos' = 1
    /\ pass' = 2
    /\ UNCHANGED <<full_text, pc>>
    /\ UNCHANGED runVars

\* End of the second application.
StripDone ==
    /\ pc = "scan"
    /\ pos > Len(subject)
    /\ pass = 2
    /\ pc' = "stripped"
    /\ UNCHANGED <<full_text, subject, pos, kept, pass, first_result>>
    /\ UNCHANGED runVars

NextStrip == CopyChar \/ KeepQuoted \/ RemoveComment \/ StripAgain \/ StripDone

SpecStrip == InitStrip /\ [][NextStrip]_vars

(***************************************************************************)
(* String operations of Python, on sequences of characters                 *)
(***************************************************************************)
MARK_DECL == <<SP, ":", ":", "=", SP>>      \* " ::= "
MARK_CALL == <<SP, "-", ">", SP>>           \* " -> "
SEP_NAME == <<SP, "-", SP>>                 \* " - "
SEP_ARGS == <<SP, "(">>                     \* " ("

\* Characters str.split() with no argument treats as separators.
IsSpace(c) == c \in {SP, TAB, NL, CR}

\* s.find(sep, from): index of the first occurrence at or after from, else 0.
Find(s, sep, from) ==
    LET C == {k \in from..(Len(s) - Len(sep) + 1) :
                  \A d \in 1..Len(sep) : s[k + d - 1] = sep[d]}
    IN IF C = {} THEN 0 ELSE Min(C)

\* sep in s
Contains(s, sep) == Find(s, sep, 1) # 0

\* s.split(sep), from index i on.
RECURSIVE SplitFrom(_, _, _)
SplitFrom(s, sep, i) ==
    LET k == Find(s, sep, i)
    IN IF k = 0 THEN <<Slice(s, i, Len(s))>>
       ELSE <<Slice(s, i, k - 1)>> \o SplitFrom(s, sep, k + Len(sep))

SplitOn(s, sep) == SplitFrom(s, sep, 1)

\* s.split(): maximal runs of non-space characters.
RECURSIVE SplitWsFrom(_, _)
SplitWsFrom(s, i) ==
    LET B == {k \in i..Len(s) : ~IsSpace(s[k])}
    IN IF B = {} THEN <<>>
       ELSE LET b == Min(B)
                E == {k \in b..Len(s) : IsSpace(s[k])}
                e == IF E = {} THEN Len(s) + 1 ELSE Min(E)
            IN <<Slice(s, b, e - 1)>> \o SplitWsFrom(s, e)

SplitWs(s) == SplitWsFrom(s, 1)

\* seq[n:] for n >= 0 (0-based n).
DropFirst(ss, n) == Slice(ss, n + 1, Len(ss))

\* lines.index(line) + 1, or 0 when index() raises ValueError.
IndexOf(ss, x) ==
    LET C == {k \in 1..Len(ss) : ss[k] = x}
    IN IF C = {} THEN 0 ELSE Min(C)

\* file.readlines(): the lines of a text, each with its "\n".
RECURSIVE ReadLinesFrom(_, _)
ReadLinesFrom(s, i) ==
    IF i > Len(s) THEN <<>>
    ELSE LET k == Find(s, <<NL>>, i)
         IN IF k = 0 THEN <<Slice(s, i, Len(s))>>
            ELSE <<Slice(s, i, k)>> \o ReadLinesFrom(s, k + 1)

ReadLines(s) == ReadLinesFrom(s, 1)

(***************************************************************************)
(* repr() of a list of str, as the f-strings of parse.py:75,81 print it    *)
(***************************************************************************)
InStr(c, s) == \E k \in 1..Len(s) : s[k] = c

\* repr picks double quotes only when the string has ' and no ".
ReprQuote(s) == IF InStr(SQ, s) /\ ~InStr(DQ, s) THEN DQ ELSE SQ

ReprChar(c, q) ==
    IF c = BS THEN <<BS, BS>>
    ELSE IF c = q THEN <<BS, q>>
    ELSE IF c = NL THEN <<BS, "n">>
    ELSE IF c = CR THEN <<BS, "r">>
    ELSE IF c = TAB THEN <<BS, "t">>
    ELSE <<c>>

ReprStr(s) ==
    LET q == ReprQuote(s)
    IN <<q>> \o Concat([k \in 1..Len(s) |-> ReprChar(s[k], q)]) \o <<q>>

ReprList(ss) ==
    <<"[">> \o JoinWith(<<",", SP>>, [k \in 1..Len(ss) |-> ReprStr(ss[k])])
           \o <<"]">>

(***************************************************************************)
(* eval() of convert.py:51,62, followed by list().  The texts it is given   *)
(* are list displays of string literals or fragments of them; anything     *)
(* else raises (SyntaxError, NameError or TypeError), which is ok = FALSE. *)
(***************************************************************************)
EvalFail == [ok |-> FALSE, val |-> <<>>]

\* A string literal starting at i: [ok, val, next].
RECURSIVE LitBody(_, _, _, _)
LitBody(s, i, q, acc) ==
    IF i > Len(s) THEN [ok |-> FALSE, val |-> <<>>, next |-> 0]
    ELSE IF s[i] = q THEN [ok |-> TRUE, val |-> acc, next |-> i + 1]
    ELSE IF s[i] = NL THEN [ok |-> FALSE, val |-> <<>>, next |-> 0]
    ELSE IF s[i] = BS
         THEN IF i + 1 > Len(s) THEN [ok |-> FALSE, val |-> <<>>, next |-> 0]
              ELSE LET e == s[i+1]
                       c == IF e = "n" THEN <<NL>>
                            ELSE IF e = "r" THEN <<CR>>
                            ELSE IF e = "t" THEN <<TAB>>
                            ELSE IF e \in {BS, SQ, DQ} THEN <<e>>
                            ELSE <<BS, e>>
                   IN LitBody(s, i + 2, q, acc \o c)
    ELSE LitBody(s, i + 1, q, Append(acc, s[i]))

SkipSpaces(s, i) ==
    LET B == {k \in i..Len(s) : s[k] # SP}
    IN IF B = {} THEN Len(s) + 1 ELSE Min(B)

\* Elements of a list display after "[" or after a comma, from i on.
RECURSIVE EvalItems(_, _, _)
EvalItems(s, i, acc) ==
    LET b == SkipSpaces(s, i)
    IN IF b > Len(s) THEN EvalFail
       ELSE IF s[b] = "]"
            THEN IF SkipSpaces(s, b + 1) > Len(s)
                 THEN [ok |-> TRUE, val |-> acc] ELSE EvalFail
       ELSE IF s[b] \in {SQ, DQ}
            THEN LET lit == LitBody(s, b + 1, s[b], <<>>)
                 IN IF ~lit.ok THEN EvalFail
                    ELSE LET c == SkipSpaces(s, lit.next)
                         IN IF c > Len(s) THEN EvalFail
                            ELSE IF s[c] = ","
                                 THEN EvalItems(s, c + 1, Append(acc, lit.val))
                            ELSE IF s[c] = "]"
                                 THEN IF SkipSpaces(s, c + 1) > Len(s)
                                      THEN [ok |-> TRUE,
                                            val |-> Append(acc, lit.val)]
                                      ELSE EvalFail
                            ELSE EvalFail
       ELSE EvalFail

EvalList(s) ==
    LET b == SkipSpaces(s, 1)
    IN IF b > Len(s) \/ s[b] # "[" THEN EvalFail
       ELSE EvalItems(s, b + 1, <<>>)

(***************************************************************************)
(* language_rules.py                                                       *)
(***************************************************************************)
Languages == {"cpp"}                        \* rules.keys()

\* '#include <GGEngine/headers/all.h>\nusing namespace gg;\n\nclass Game {\npublic:'
RuleStart ==
    <<"#", "i", "n", "c", "l", "u", "d", "e", SP, "<", "G", "G", "E", "n",
      "g", "i", "n", "e", "/", "h", "e", "a", "d", "e", "r", "s", "/", "a",
      "l", "l", ".", "h", ">", NL, "u", "s", "i", "n", "g", SP, "n", "a",
      "m", "e", "s", "p", "a", "c", "e", SP, "g", "g", ";", NL, NL, "c",
      "l", "a", "s", "s", SP, "G", "a", "m", "e", SP, "{", NL, "p", "u",
      "b", "l", "i", "c", ":">>

\* '\n};'
RuleEnd ==
    <<NL, "}", ";">>

\* rule["code"]["var"].format(...):
\*   "\n\t{var_type}* {var_name} = new {class_name}({args});"
FormatVar(var_type, var_name, class_name, args) ==
    <<NL, TAB>> \o var_type \o <<"*", SP>> \o var_name
        \o <<SP, "=", SP, "n", "e", "w", SP>> \o class_name
        \o <<"(">> \o args \o <<")", ";">>

\* rule["code"]["method"].format(...):
\*   "\n\t{var_name}->{method_name}({args});"
FormatMethod(var_name, method_name, args) ==
    <<NL, TAB>> \o var_name \o <<"-", ">">> \o method_name
        \o <<"(">> \o args \o <<")", ";">>

(***************************************************************************)
(* The loop body of parse(), parse.py:69-81                                *)
(***************************************************************************)
Statement(kind, var_type, var_name, class_name, method_name, args) ==
    [kind |-> kind, var_type |-> var_type, var_name |-> var_name,
     class_name |-> class_name, method_name |-> method_name, args |-> args]

\* re.sub(__args_pattern, "", s), parse.py:37: "^\(\)$" without MULTILINE
\* matches "()" when it is the whole string or is followed by one final "\n".
SubArgsPattern(s) ==
    IF s = <<"(", ")">> THEN <<>>
    ELSE IF s = <<"(", ")", NL>> THEN <<NL>>
    ELSE s

\* parse.py:73-74 and 79-80, rest being line.split(marker)[1].
ArgsString(rest) == JoinWith(<<SP>>, DropFirst(SplitWs(rest), 1))

ArgsOf(rest) ==
    LET args_string == ArgsString(rest)
    IN IF args_string = <<>> THEN <<>>
       ELSE SplitOn(SubArgsPattern(Slice(args_string, 2, Len(args_string) - 1)),
                    <<SP>>)

\* Which branch of parse.py:69/76 a line takes.
ClassifyCallFirst(line) ==
    IF Contains(line, MARK_CALL) THEN "method"
    ELSE IF Contains(line, MARK_DECL) THEN "var"
    ELSE "none"

Classify(line) ==
    IF Contains(line, MARK_DECL) THEN "var"
    ELSE IF Contains(line, MARK_CALL) THEN "method"
    ELSE "none"

\* line.split(" - ")[1] raises IndexError exactly when there is no " - ".
RaisesIndexError(line) ==
    Classify(line) = "var" /\ Len(SplitOn(line, SEP_NAME)) < 2

\* parse.py:70-74
ParseConstruct(line) ==
    LET rest == SplitOn(line, MARK_DECL)[2]
    IN Statement("var",
                 SplitOn(line, SEP_NAME)[1],
                 SplitOn(SplitOn(line, SEP_NAME)[2], MARK_DECL)[1],
                 SplitOn(rest, SEP_ARGS)[1],
                 <<>>,
                 ArgsOf(rest))

\* parse.py:77-80
ParseInvoke(line) ==
    LET rest == SplitOn(line, MARK_CALL)[2]
    IN Statement("method",
                 <<>>,
                 SplitOn(line, MARK_CALL)[1],
                 <<>>,
                 SplitOn(rest, SEP_ARGS)[1],
                 ArgsOf(rest))

\* The f-strings of parse.py:75 and parse.py:81.
Serialize(st) ==
    IF st.kind = "var"
    THEN <<"v", "a", "r", SP>> \o st.var_type \o <<SP>> \o st.var_name
           \o <<SP>> \o st.class_name \o <<SP>> \o ReprList(st.args) \o <<NL>>
    ELSE <<"m", "e", "t", "h", "o", "d", SP>> \o st.var_name \o <<SP>>
           \o st.method_name \o <<SP>> \o ReprList(st.args) \o <<NL>>

\* parse.py:66
CodeLines(text) == SelectSeq(SplitOn(text, <<NL>>), LAMBDA x : x # <<>>)

(***************************************************************************)
(* The loop body of convert(), convert.py:45-66                            *)
(***************************************************************************)
\* What one line gives: crash (IndexError or a failing eval), skip (neither
\* "var" nor "method"), or the statement read and its expansion.
ConvertOneLine(line) ==
    LET toks == SplitWs(line)
        crash == [result |-> "crash", st |-> <<>>, text |-> <<>>]
    IN IF Len(toks) = 0 THEN crash
       ELSE IF toks[1] = <<"v", "a", "r">>
       THEN IF Len(toks) < 4 THEN crash
            ELSE LET ev == EvalList(JoinWith(<<SP>>, DropFirst(toks, 4)))
                 IN IF ~ev.ok THEN crash
                    ELSE [result |-> "ok",
                          st |-> Statement("var", toks[2], toks[3], toks[4],
                                           <<>>, ev.val),
                          text |-> FormatVar(toks[2], toks[3], toks[4],
                                       JoinWith(<<",", SP>>, ev.val))]
       ELSE IF toks[1] = <<"m", "e", "t", "h", "o", "d">>
       THEN IF Len(toks) < 4 THEN crash
            ELSE LET ev == EvalList(toks[4])
                 IN IF ~ev.ok THEN crash
                    ELSE [result |-> "ok",
                          st |-> Statement("method", <<>>, toks[2], <<>>,
                                           toks[3], ev.val),
                          text |-> FormatMethod(toks[2], toks[3],
                                       JoinWith(<<",", SP>>, ev.val))]
       ELSE [result |-> "skip", st |-> <<>>, text |-> <<>>]

(***************************************************************************)
(* Input texts of a run                                                    *)
(***************************************************************************)
\* 'T - m ::= C (1 2)'
ChunkConstruct ==
    <<"T", SP, "-", SP, "m", SP, ":", ":", "=", SP, "C", SP, "(", "1", SP,
      "2", ")">>

\* 'm -> go ()'
ChunkInvokeEmpty ==
    <<"m", SP, "-", ">", SP, "g", "o", SP, "(", ")">>

\* 'm -> go'
ChunkInvokeBare ==
    <<"m", SP, "-", ">", SP, "g", "o">>

\* 'a -> b (x y z)'
ChunkInvokeThree ==
    <<"a", SP, "-", ">", SP, "b", SP, "(", "x", SP, "y", SP, "z", ")">>

\* 'x ::= C'
ChunkNoSeparator ==
    <<"x", SP, ":", ":", "=", SP, "C">>

\* ' -> go'
ChunkNoReceiver ==
    <<SP, "-", ">", SP, "g", "o">>

\* 'T -  ::= C'
ChunkNoName ==
    <<"T", SP, "-", SP, SP, ":", ":", "=", SP, "C">>

\* '/*\nx ::= C\n*/'
ChunkBlockComment ==
    <<"/", "*", NL, "x", SP, ":", ":", "=", SP, "C", NL, "*", "/">>

\* 'm -> f ("//") // c'
ChunkQuotedSlashes ==
    <<"m", SP, "-", ">", SP, "f", SP, "(", DQ, "/", "/", DQ, ")", SP, "/",
      "/", SP, "c">>

\* 'hello'
ChunkPlain ==
    <<"h", "e", "l", "l", "o">>

\* ''
ChunkBlank ==
    <<>>

\* 'x ::= C // c'
ChunkNoSeparatorComment ==
    <<"x", SP, ":", ":", "=", SP, "C", SP, "/", "/", SP, "c">>

\* 'T - m ::= C -> d'
ChunkBothMarkers ==
    <<"T", SP, "-", SP, "m", SP, ":", ":", "=", SP, "C", SP, "-", ">", SP,
      "d">>

\* '// c'
ChunkLineComment ==
    <<"/", "/", SP, "c">>

\* "m -> f (it's)"
ChunkApostrophe ==
    <<"m", SP, "-", ">", SP, "f", SP, "(", "i", "t", SQ, "s", ")">>

Chunks ==
    {ChunkConstruct, ChunkInvokeEmpty, ChunkInvokeBare, ChunkInvokeThree,
     ChunkNoSeparator, ChunkNoReceiver, ChunkNoName, ChunkBlockComment,
     ChunkQuotedSlashes, ChunkPlain, ChunkBlank, ChunkNoSeparatorComment,
     ChunkBothMarkers, ChunkLineComment, ChunkApostrophe}

\* Input files: up to MaxChunks chunks, one per line group.
InputTexts ==
    {JoinWith(<<NL>>, cs) : cs \in UNION {[1..k -> Chunks] : k \in 0..MaxChunks}}

\* Intermediate statements a file given to convert.py directly may hold.
SampleStatements ==
    {Statement("var", <<"T">>, <<"m">>, <<"C">>, <<>>, <<<<"1">>, <<"2">>>>),
     Statement("method", <<>>, <<"m">>, <<>>, <<"g", "o">>, <<>>),
     Statement("method", <<>>, <<"m">>, <<>>, <<"f">>, <<<<"x">>>>),
     Statement("method", <<>>, <<"a">>, <<>>, <<"b">>,
               <<<<"x">>, <<"y">>, <<"z">>>>)}

SampleSequences == UNION {[1..k -> SampleStatements] : k \in 0..MaxChunks}

SerializeAll(sts) == Concat([k \in 1..Len(sts) |-> Serialize(sts[k])])

(***************************************************************************)
(* One run                                                                 *)
(***************************************************************************)
\* python parse.py in.gg out.txt [language]
InitParse ==
    /\ entry = "parse.py"
    /\ full_text \in InputTexts
    /\ lang_arg \in {"", "txt", "cpp", "nolang"}
    /\ pc = "start"
    /\ convert_to = "txt"
    /\ statements = <<>>
    /\ out_file = <<>>

\* python convert.py language file
InitConvert ==
    /\ entry = "convert.py"
    /\ full_text = <<>>
    /\ lang_arg \in {"cpp", "nolang"}
    /\ pc = "convert"
    /\ convert_to = lang_arg
    /\ statements \in SampleSequences
    /\ out_file = SerializeAll(statements)

Init ==
    /\ InitParse \/ InitConvert
    /\ subject = <<>>
    /\ pos = 1
    /\ kept = <<>>
    /\ pass = 1
    /\ first_result = <<>>
    /\ code_lines = <<>>
    /\ line_no = 0
    /\ output = <<>>
    /\ out_written = FALSE
    /\ line_index = 0
    /\ read_lines = <<>>
    /\ conv_no = 0
    /\ read_back = <<>>
    /\ output_text = <<>>

\* parse.py:51
LanguageAccepted(lang) == lang \in Languages \/ lang = "txt"

\* parse.py:49-55, language refused.
RejectLanguage ==
    /\ pc = "start"
    /\ lang_arg # ""
    /\ ~LanguageAccepted(lang_arg)
    /\ pc' = "bad_language"
    /\ UNCHANGED <<full_text, entry, lang_arg, convert_to, code_lines, line_no,
                   output, statements, out_file, out_written, line_index,
                   read_lines, conv_no, read_back, output_text>>
    /\ UNCHANGED stripVars

\* parse.py:41-52, no language given or language accepted.
AcceptArguments ==
    /\ pc = "start"
    /\ lang_arg = "" \/ LanguageAccepted(lang_arg)
    /\ convert_to' = IF lang_arg = "" THEN "txt" ELSE lang_arg
    /\ pc' = "read"
    /\ UNCHANGED <<full_text, entry, lang_arg, code_lines, line_no, output,
                   statements, out_file, out_written, line_index, read_lines,
                   conv_no, read_back, output_text>>
    /\ UNCHANGED stripVars

\* parse.py:58-66: both files are opened (the output file is truncated),
\* the text is read, stripped of comments and split into lines.
ReadAndStrip ==
    /\ pc = "read"
    /\ out_file' = <<>>
    /\ output' = <<>>
    /\ code_lines' = CodeLines(StripComments(full_text))
    /\ line_no' = 1
    /\ pc' = "loop"
    /\ UNCHANGED <<full_text, entry, lang_arg, convert_to, statements,
                   out_written, line_index, read_lines, conv_no, read_back,
                   output_text>>
    /\ UNCHANGED stripVars

\* parse.py:69-75
ParseLineConstruct ==
    /\ pc = "loop"
    /\ line_no <= Len(code_lines)
    /\ Classify(code_lines[line_no]) = "var"
    /\ ~RaisesIndexError(code_lines[line_no])
    /\ LET st == ParseConstruct(code_lines[line_no])
       IN /\ statements' = Append(statements, st)
          /\ output' = Append(output, Serialize(st))
    /\ line_no' = line_no + 1
    /\ UNCHANGED <<full_text, pc, entry, lang_arg, convert_to, code_lines,
                   out_file, out_written, line_index, read_lines, conv_no,
                   read_back, output_text>>
    /\ UNCHANGED stripVars

\* parse.py:76-81
ParseLineInvoke ==
    /\ pc = "loop"
    /\ line_no <= Len(code_lines)
    /\ Classify(code_lines[line_no]) = "method"
    /\ LET st == ParseInvoke(code_lines[line_no])
       IN /\ statements' = Append(statements, st)
          /\ output' = Append(output, Serialize(st))
    /\ line_no' = line_no + 1
    /\ UNCHANGED <<full_text, pc, entry, lang_arg, convert_to, code_lines,
                   out_file, out_written, line_index, read_lines, conv_no,
                   read_back, output_text>>
    /\ UNCHANGED stripVars

\* parse.py:69,76: neither condition holds, the loop goes on.
SkipLine ==
    /\ pc = "loop"
    /\ line_no <= Len(code_lines)
    /\ Classify(code_lines[line_no]) = "none"
    /\ line_no' = line_no + 1
    /\ UNCHANGED <<full_text, pc, entry, lang_arg, convert_to, code_lines,
                   output, statements, out_file, out_written, line_index,
                   read_lines, conv_no, read_back, output_text>>
    /\ UNCHANGED stripVars

\* As RaiseSyntaxError, with the list flushed to the file on the way out.
RaiseSyntaxErrorFlushing ==
    /\ pc = "loop"
    /\ line_no <= Len(code_lines)
    /\ RaisesIndexError(code_lines[line_no])
    /\ LET found == IndexOf(SplitOn(full_text, <<NL>>), code_lines[line_no])
       IN IF found # 0
          THEN /\ line_index' = found
               /\ pc' = "syntax_error"
          ELSE /\ line_index' = line_index
               /\ pc' = "value_error"
    /\ out_file' = Concat(output)
    /\ out_written' = TRUE
    /\ UNCHANGED <<full_text, entry, lang_arg, convert_to, code_lines, line_no,
                   output, statements, read_lines, conv_no, read_back,
                   output_text>>
    /\ UNCHANGED stripVars

\* parse.py:82-85: IndexError in the loop body.  index() raises ValueError
\* when no line of full_text equals the stripped line; nothing catches it
\* and the run ends without a message.
RaiseSyntaxError ==
    /\ pc = "loop"
    /\ line_no <= Len(code_lines)
    /\ RaisesIndexError(code_lines[line_no])
    /\ LET found == IndexOf(SplitOn(full_text, <<NL>>), code_lines[line_no])
       IN IF found # 0
          THEN /\ line_index' = found
               /\ pc' = "syntax_error"
          ELSE /\ line_index' = line_index
               /\ pc' = "value_error"
    /\ UNCHANGED <<full_text, entry, lang_arg, convert_to, code_lines, line_no,
                   output, statements, out_file, out_written, read_lines,
                   conv_no, read_back, output_text>>
    /\ UNCHANGED stripVars

\* parse.py:88-95: the loop is over, the list is written.
WriteOutput ==
    /\ pc = "loop"
    /\ line_no > Len(code_lines)
    /\ out_file' = Concat(output)
    /\ out_written' = TRUE
    /\ pc' = IF convert_to # "txt" THEN "convert" ELSE "done"
    /\ UNCHANGED <<full_text, entry, lang_arg, convert_to, code_lines, line_no,
                   output, statements, line_index, read_lines, conv_no,
                   read_back, output_text>>
    /\ UNCHANGED stripVars

\* convert.py:32-35
ConvertReject ==
    /\ pc = "convert"
    /\ convert_to \notin Languages
    /\ pc' = "bad_language"
    /\ UNCHANGED <<full_text, entry, lang_arg, convert_to, code_lines, line_no,
                   output, statements, out_file, out_written, line_index,
                   read_lines, conv_no, read_back, output_text>>
    /\ UNCHANGED stripVars

\* convert.py:36-44
ConvertOpen ==
    /\ pc = "convert"
    /\ convert_to \in Languages
    /\ output_text' = RuleStart
    /\ read_lines' = ReadLines(out_file)
    /\ conv_no' = 1
    /\ pc' = "render"
    /\ UNCHANGED <<full_text, entry, lang_arg, convert_to, code_lines, line_no,
                   output, statements, out_file, out_written, line_index,
                   read_back>>
    /\ UNCHANGED stripVars

\* convert.py:45-66, a line that is read without an exception.
ConvertLine ==
    /\ pc = "render"
    /\ conv_no <= Len(read_lines)
    /\ LET r == ConvertOneLine(read_lines[conv_no])
       IN /\ r.result # "crash"
          /\ output_text' = output_text \o r.text
          /\ read_back' = IF r.result = "ok" THEN Append(read_back, r.st)
                          ELSE read_back
    /\ conv_no' = conv_no + 1
    /\ UNCHANGED <<full_text, pc, entry, lang_arg, convert_to, code_lines,
                   line_no, output, statements, out_file, out_written,
                   line_index, read_lines>>
    /\ UNCHANGED stripVars

\* convert.py:45-62, IndexError on a missing field or an exception in eval:
\* the run ends and the file keeps the intermediate text.
ConvertCrash ==
    /\ pc = "render"
    /\ conv_no <= Len(read_lines)
    /\ ConvertOneLine(read_lines[conv_no]).result = "crash"
    /\ pc' = "convert_crash"
    /\ UNCHANGED <<full_text, entry, lang_arg, convert_to, code_lines, line_no,
                   output, statements, out_file, out_written, line_index,
                   read_lines, conv_no, read_back, output_text>>
    /\ UNCHANGED stripVars

\* convert.py:67-72
ConvertFinish ==
    /\ pc = "render"
    /\ conv_no > Len(read_lines)
    /\ output_text' = output_text \o RuleEnd
    /\ out_file' = output_text \o RuleEnd
    /\ out_written' = TRUE
    /\ pc' = "converted"
    /\ UNCHANGED <<full_text, entry, lang_arg, convert_to, code_lines, line_no,
                   output, statements, line_index, read_lines, conv_no,
                   read_back>>
    /\ UNCHANGED stripVars

Next ==
    \/ RejectLanguage
    \/ AcceptArguments
    \/ ReadAndStrip
    \/ ParseLineConstruct
    \/ ParseLineInvoke
    \/ SkipLine
    \/ RaiseSyntaxError
    \/ WriteOutput
    \/ ConvertReject
    \/ ConvertOpen
    \/ ConvertLine
    \/ ConvertCrash
    \/ ConvertFinish

Spec == Init /\ [][Next]_vars

(***************************************************************************)
(* Properties                                                              *)
(***************************************************************************)
NoSpace(s) == s # <<>> /\ \A k \in 1..Len(s) : ~IsSpace(s[k])

\* A statement whose names are non-empty and free of white space (spec 3).
WellFormed(st) ==
    /\ NoSpace(st.var_name)
    /\ st.kind = "var" => NoSpace(st.var_type) /\ NoSpace(st.class_name)
    /\ st.kind = "method" => NoSpace(st.method_name)

AllWellFormed(sts) == \A k \in 1..Len(sts) : WellFormed(sts[k])

\* The template expansion of one statement, arguments joined by ", ".
Expand(st) ==
    IF st.kind = "var"
    THEN FormatVar(st.var_type, st.var_name, st.class_name,
                   JoinWith(<<",", SP>>, st.args))
    ELSE FormatMethod(st.var_name, st.method_name,
                      JoinWith(<<",", SP>>, st.args))

RenderEnded == pc \in {"converted", "convert_crash"}

\* C1: rendering well-formed statements always ends with the file holding
\* the start text, one expansion per statement in statement order, and the
\* end text.
C1_RenderIsFold ==
    (RenderEnded /\ AllWellFormed(statements)) =>
        /\ pc = "converted"
        /\ out_file = RuleStart
                       \o Concat([k \in 1..Len(statements) |->
                                     Expand(statements[k])])
                       \o RuleEnd

\* C2: after normalizing and rendering, every call carries the arguments of
\* its statement, in their order, joined by comma-space; for every number
\* of arguments, for Invoke and Construct lines alike.
C2_ArgumentOrder ==
    (RenderEnded /\ entry = "parse.py" /\ AllWellFormed(statements)) =>
        /\ Len(read_back) = Len(statements)
        /\ \A k \in 1..Len(statements) :
              JoinWith(<<",", SP>>, read_back[k].args)
                  = JoinWith(<<",", SP>>, statements[k].args)

EndsWith(s, suffix) ==
    /\ Len(s) >= Len(suffix)
    /\ Slice(s, Len(s) - Len(suffix) + 1, Len(s)) = suffix

\* The line the loop has just handled gave the last statement.
JustParsed(line) ==
    /\ entry = "parse.py"
    /\ pc = "loop"
    /\ line_no > 1
    /\ code_lines[line_no - 1] = line
    /\ statements # <<>>

\* C3: a Construct or Invoke line ending with " ()" gives a statement with
\* an empty argument list, serialized as "[]".
C3_EmptyParameters ==
    \A line \in {code_lines[k] : k \in 1..Len(code_lines)} :
        (JustParsed(line) /\ EndsWith(line, <<SP, "(", ")">>)
                          /\ Classify(line) # "none") =>
            /\ statements[Len(statements)].args = <<>>
            /\ EndsWith(output[Len(output)], <<SP, "[", "]", NL>>)

\* C4: reading back the serialized text of well-formed statements gives the
\* same statements in the same order.
C4_RoundTrip ==
    (RenderEnded /\ AllWellFormed(statements)) => read_back = statements

\* Original indices of the characters the substitution keeps.
RECURSIVE KeptFrom(_, _)
KeptFrom(t, i) ==
    IF i > Len(t) THEN <<>>
    ELSE LET m == MatchAt(t, i)
         IN IF m.group = 0 THEN <<i>> \o KeptFrom(t, i + 1)
            ELSE IF m.group = 1
                 THEN [k \in 1..(m.end - i + 1) |-> i + k - 1]
                          \o KeptFrom(t, m.end + 1)
            ELSE KeptFrom(t, m.end + 1)

\* Positions in the stripped text s where a non-empty line starts.
LineStarts(s) ==
    {q \in 1..Len(s) : s[q] # NL /\ (q = 1 \/ s[q - 1] = NL)}

\* 1-based line of full_text on which the n-th code line starts.
OriginalLine(n) ==
    LET stripped == StripComments(full_text)
        starts == LineStarts(stripped)
        q == CHOOSE x \in starts : Cardinality({y \in starts : y < x}) = n - 1
        at == KeptFrom(full_text, 1)[q]
    IN 1 + Cardinality({j \in 1..(at - 1) : full_text[j] = NL})

\* C5: when a line has " ::= " but no " - ", SyntaxError is reported with
\* the 1-based position of that line in the original text.
C5_LineNumberFidelity ==
    pc \in {"syntax_error", "value_error"} =>
        /\ pc = "syntax_error"
        /\ line_index = OriginalLine(line_no)

\* C6: a run that ends with SyntaxError or with a refused language has
\* written nothing to the output file and has rendered nothing.
C6_NoPartialOutput ==
    pc \in {"syntax_error", "bad_language"} =>
        /\ ~out_written
        /\ entry = "parse.py" => out_file = <<>>
        /\ output_text = <<>>
        /\ read_back = <<>>
        /\ conv_no = 0

\* A SyntaxError after well-formed lines had been parsed.
C6_Witness ==
    /\ pc = "syntax_error"
    /\ Len(output) >= 1
    /\ out_file = <<>>

\* A run from i to j delimited by matching quotes, the terminator being the
\* first matching quote not directly preceded by a backslash.
IsQuotedRun(t, i, j) ==
    /\ t[i] \in {DQ, SQ}
    /\ i < j /\ j <= Len(t)
    /\ t[j] = t[i] /\ t[j - 1] # BS
    /\ \A k \in (i + 1)..(j - 1) : ~(t[k] = t[i] /\ t[k - 1] # BS)

\* "//" up to, not including, the end of the line.
IsLineComment(t, i, j) ==
    /\ i + 1 <= j /\ j <= Len(t)
    /\ t[i] = "/" /\ t[i + 1] = "/"
    /\ \A k \in i..j : t[k] # NL
    /\ j = Len(t) \/ t[j + 1] = NL

\* "/*" up to the first "*/" after it.
IsClosedBlockComment(t, i, j) ==
    /\ i + 3 <= j /\ j <= Len(t)
    /\ t[i] = "/" /\ t[i + 1] = "*"
    /\ t[j - 1] = "*" /\ t[j] = "/"

IsUnclosedBlock(t, i) ==
    /\ i + 1 <= Len(t)
    /\ t[i] = "/" /\ t[i + 1] = "*"
    /\ \A k \in (i + 2)..(Len(t) - 1) : ~(t[k] = "*" /\ t[k + 1] = "/")

\* C7: a quoted run the scanner reaches is copied verbatim; what a step
\* drops is a line comment or a closed block comment; an unclosed "/*"
\* drops nothing.
C7_QuoteSafety ==
    [][(pc = "scan" /\ pos <= Len(subject)) =>
          /\ \A j \in pos..Len(subject) :
                IsQuotedRun(subject, pos, j) =>
                    /\ pos' = j + 1
                    /\ kept' = kept \o Slice(subject, pos, j)
          /\ \/ kept' = kept \o Slice(subject, pos, pos' - 1)
             \/ /\ kept' = kept
                /\ \/ IsLineComment(subject, pos, pos' - 1)
                   \/ IsClosedBlockComment(subject, pos, pos' - 1)
          /\ IsUnclosedBlock(subject, pos) =>
                /\ pos' = pos + 1
                /\ kept' = Append(kept, "/")]_vars

\* A quoted run holding a comment marker has just been copied.
C7_Witness ==
    /\ pc = "scan"
    /\ pass = 1
    /\ pos > 1
    /\ IsQuotedRun(subject, 1, pos - 1)
    /\ \E k \in 1..(pos - 2) :
          subject[k] = "/" /\ subject[k + 1] \in {"/", "*"}
    /\ kept = Slice(subject, 1, pos - 1)

C9_NonEmptyName ==
    \A k \in 1..Len(statements) : statements[k].var_name # <<>>

Marked(line) == Contains(line, MARK_DECL) \/ Contains(line, MARK_CALL)

LacksSeparator(line) ==
    Contains(line, MARK_DECL) /\ ~Contains(line, SEP_NAME)

\* One statement per marked line, of the kind of the line, in line order,
\* each starting with the text its line starts with.
MatchesLines(sts, lines) ==
    LET marked == SelectSeq(lines, Marked)
    IN /\ Len(sts) = Len(marked)
       /\ \A k \in 1..Len(sts) :
             /\ sts[k].kind =
                   IF Contains(marked[k], MARK_DECL) THEN "var" ELSE "method"
             /\ LET lead == IF sts[k].kind = "var" THEN sts[k].var_type
                            ELSE sts[k].var_name
                IN /\ Len(lead) <= Len(marked[k])
                   /\ Slice(marked[k], 1, Len(lead)) = lead

LoopEnded ==
    /\ entry = "parse.py"
    /\ pc \in {"done", "convert", "render", "converted", "convert_crash",
               "syntax_error", "value_error"}

\* C10 as stated: once the loop has ended, every marked line has given
\* its statement, and no run ends the loop with an error.
C10_EveryMarkedLine ==
    LoopEnded =>
        /\ MatchesLines(statements, code_lines)
        /\ pc \notin {"syntax_error", "value_error"}

\* C10 amended: the lines handled so far gave one statement per marked
\* line, in order; the loop stops with an error exactly at a line with
\* " ::= " and without " - ", which gives no statement; a run that gets
\* past the loop has no such line and a statement for every marked line.
C10_MarkedLinesUntilError ==
    /\ (entry = "parse.py" /\ pc \in {"loop", "syntax_error", "value_error"}) =>
          MatchesLines(statements, Slice(code_lines, 1, line_no - 1))
    /\ (entry = "parse.py" /\ pc \in {"syntax_error", "value_error"}) =>
          LacksSeparator(code_lines[line_no])
    /\ (LoopEnded /\ pc \notin {"syntax_error", "value_error"}) =>
          /\ MatchesLines(statements, code_lines)
          /\ \A k \in 1..Len(code_lines) : ~LacksSeparator(code_lines[k])

\* The loop ended normally over a line with both markers and a line with
\* none.
C10_Witness ==
    /\ entry = "parse.py"
    /\ pc = "done"
    /\ \E k \in 1..Len(code_lines) :
          Contains(code_lines[k], MARK_DECL) /\ Contains(code_lines[k], MARK_CALL)
    /\ \E k \in 1..Len(code_lines) : ~Marked(code_lines[k])
    /\ Len(statements) = 1

====
